---- MODULE Spec2Model ----
(***************************************************************************)
(* State-machine model of the fitness dashboard (fitness_dashboard_app).   *)
(*                                                                         *)
(* The state is the content of the SQLite store (tables user, week,        *)
(* dailymetric, measurement, wellbeing, adherence) plus what the last      *)
(* screen run showed to the operator.  One action is one Streamlit script  *)
(* run of a page with one button pressed (or none).                        *)
(*                                                                         *)
(* Conventions                                                             *)
(*   - a calendar date is a day number; day 0 is a Monday, so              *)
(*     date.weekday() is d % 7;                                            *)
(*   - None (Python None / SQL NULL / pandas NaN) is -1;                   *)
(*   - decimal quantities (kg, inches, CSV and grid cells) are counted in  *)
(*     tenths, so 12.5 is 125; integer columns (steps, ratings, scores)    *)
(*     are stored in units;                                                *)
(*   - a quotient (run_km, a mean) is the exact fraction                   *)
(*     [num |-> n, den |-> d] with d > 0, and NoRatio when it is absent    *)
(*     (None / NaN); fractions are compared with RatEq.                    *)
(***************************************************************************)
EXTENDS Integers, Sequences, FiniteSets, TLC

\* ------------------------------------------------------------------ bounds
\* calendar dates are 0..MaxDate
MaxDate == 8
\* at most MaxWeeks Week rows exist at a time
MaxWeeks == 2
\* at most MaxDaily DailyMetric rows exist at a time
MaxDaily == 2
\* week_number never exceeds MaxWeekNum
MaxWeekNum == MaxWeeks + 1
\* an uploaded CSV has at most MaxRows rows
MaxRows == 2
\* row ids (max id + 1 on insert) never exceed MaxId
MaxId == 3
\* a series handed to rolling_avg has at most MaxLen points
MaxLen == 3

None == -1
NoCleanup == [op |-> "none"]
NoCsv == [cols |-> {}, rows |-> <<>>]
NoView == [page |-> "none"]
Dates == 0..MaxDate

VARIABLES
  users,     \* table user
  weeks,     \* table week
  dailies,   \* table dailymetric
  meas,      \* table measurement
  wb,        \* table wellbeing
  adh,       \* table adherence
  msg,       \* what the last script run reported (st.success / st.error / ...)
  calls,     \* the get_or_create_week call that ended the last script run, if any
  csv,       \* the rows of the last CSV handed to Import
  cleanup,   \* the last run of a cleanup button: its widgets and what it computed
  view       \* the last run of a read-only page: what it loaded and displayed

vars == <<users, weeks, dailies, meas, wb, adh, msg, calls, csv, cleanup, view>>

\* ----------------------------------------------------------------- helpers
Max(S) == CHOOSE x \in S : \A y \in S : y <= x
Min(S) == CHOOSE x \in S : \A y \in S : x <= y
Ids(T) == {r.id : r \in T}

\* INTEGER PRIMARY KEY without AUTOINCREMENT: SQLite hands out max(rowid)+1
NextId(T) == IF T = {} THEN 1 ELSE Max(Ids(T)) + 1

\* select(...).first(): SQLite scans the table in rowid order
First(S) == CHOOSE r \in S : \A q \in S : r.id <= q.id

\* the store as one value, threaded through the handlers' steps
DB == [weeks |-> weeks, dailies |-> dailies, meas |-> meas, wb |-> wb, adh |-> adh]

\* int(x) of a cell counted in tenths: truncation toward zero
IntOf(c) == IF c >= 0 THEN c \div 10 ELSE -((-c) \div 10)

\* "x or None" / "None if x == 0 else x"
OrNone(x) == IF x = 0 THEN None ELSE x

\* exact fractions
Ratio(n, d) == [num |-> n, den |-> d]
NoRatio == [num |-> 0, den |-> 0]
RatEq(a, b) == a.den # 0 /\ b.den # 0 /\ a.num * b.den = b.num * a.den

MeasFields == {"r_biceps_in", "l_biceps_in", "chest_in", "r_thigh_in", "l_thigh_in", "waist_navel_in"}
WbFields == {"sleep_issues", "hunger_issues", "stress_issues"}
AdhFields == {"diet_score", "workout_score"}

\* model_cls(user_id=..., week_id=...): every other column defaults to None
NewWeekly(fields, id, uid, wid) ==
  [f \in fields \cup {"id", "user_id", "week_id"} |->
     IF f = "id" THEN id ELSE IF f = "user_id" THEN uid ELSE IF f = "week_id" THEN wid ELSE None]

\* ------------------------------------------------------ app.py (home page)
DefaultUser ==
  [id |-> 1, name |-> "You", email |-> None, height_cm |-> None,
   goal_weight_kg |-> None, units |-> "metric"]

bootstrap_user_twice(us) == us \cup {[DefaultUser EXCEPT !.id = NextId(us)]}

bootstrap_user(us) ==
  IF us # {} THEN us ELSE us \cup {[DefaultUser EXCEPT !.id = NextId(us)]}

\* a run of app.py with no button pressed
HomeRender ==
  /\ users' = bootstrap_user(users)
  /\ msg' = "home"
  /\ calls' = <<>>
  /\ csv' = NoCsv
  /\ view' = NoView
  /\ cleanup' = NoCleanup
  /\ UNCHANGED <<weeks, dailies, meas, wb, adh>>

\* a run of app.py with "Save profile" pressed; the form was rendered by an
\* earlier run
SaveProfile(name, height, goal, units) ==
  LET us == bootstrap_user(users)
      u == First(us)
  IN /\ users # {}
     /\ users' = (us \ {u}) \cup
                   {[u EXCEPT !.name = name, !.height_cm = OrNone(height),
                              !.goal_weight_kg = OrNone(goal), !.units = units]}
     /\ msg' = "Profile saved"
     /\ calls' = <<>>
     /\ csv' = NoCsv
     /\ view' = NoView
     /\ cleanup' = NoCleanup
     /\ UNCHANGED <<weeks, dailies, meas, wb, adh>>

\* --------------------------------------------- pages/2 Data Entry: helpers
\* lines 11-14: steps_to_km(steps) for the number the widget returns
steps_to_km(steps) == Ratio(steps * 8, 1780 * 5)

monday_start(d) == d - (d % 7)

\* select(Week).where(user_id == uid, start_date == start)
find_week_never(ws, uid, start) == {}

find_week(ws, uid, start) == {w \in ws : w.user_id = uid /\ w.start_date = start}

\* next_num = (last.week_number + 1) if last else 1
next_num_count(ws, uid) == Cardinality({w \in ws : w.user_id = uid}) + 1

next_num(ws, uid) ==
  LET mine == {w \in ws : w.user_id = uid}
  IN IF mine = {} THEN 1 ELSE Max({w.week_number : w \in mine}) + 1

\* get_or_create_week(sess, user_id, d): the store afterwards, the Week
\* returned and whether it was created
get_or_create_week_unsaved(db, uid, d) ==
  LET start == monday_start(d)
      found == find_week(db.weeks, uid, start)
  IN IF found # {}
     THEN [db |-> db, wk |-> First(found), created |-> FALSE]
     ELSE [db |-> db,
           wk |-> [id |-> NextId(db.weeks), user_id |-> uid,
                   week_number |-> next_num(db.weeks, uid), start_date |-> start],
           created |-> TRUE]

get_or_create_week(db, uid, d) ==
  LET start == monday_start(d)
      found == find_week(db.weeks, uid, start)
  IN IF found # {}
     THEN [db |-> db, wk |-> First(found), created |-> FALSE]
     ELSE LET wk == [id |-> NextId(db.weeks), user_id |-> uid,
                     week_number |-> next_num(db.weeks, uid), start_date |-> start]
          IN [db |-> [db EXCEPT !.weeks = @ \cup {wk}], wk |-> wk, created |-> TRUE]

\* the model's caps on the week table and on the row ids of every table
WeeksWithin(db) ==
  /\ Cardinality(db.weeks) <= MaxWeeks
  /\ \A w \in db.weeks : w.week_number <= MaxWeekNum
  /\ \A r \in db.weeks \cup db.dailies \cup db.meas \cup db.wb \cup db.adh : r.id <= MaxId

Call(d, r) == [d |-> d, id |-> r.wk.id, created |-> r.created]

SetDB(db) ==
  /\ weeks' = db.weeks
  /\ dailies' = db.dailies
  /\ meas' = db.meas
  /\ wb' = db.wb
  /\ adh' = db.adh

\* user = sess.exec(select(User)).first(); every page dereferences user.id
HasUser == users # {}
user_id == First(users).id

\* ---------------- get_or_create_week statement by statement, two sessions
\* Each browser session runs the page in a thread of its own with a Session of
\* its own. calls holds the calls in flight: the date, the statement the call
\* is at, and what its SELECTs returned
AllDone == \A i \in 1..Len(calls) : calls[i].pc = "done"

\* a session starts rendering the weekly tab for date d
WeekCallBegin(d) ==
  /\ HasUser
  /\ calls' = IF AllDone
              THEN <<[d |-> d, pc |-> "lookup", id |-> None, num |-> None, created |-> FALSE]>>
              ELSE Append(calls, [d |-> d, pc |-> "lookup", id |-> None, num |-> None,
                                  created |-> FALSE])
  /\ AllDone \/ Len(calls) < 2
  /\ msg' = "concurrent"
  /\ csv' = NoCsv
  /\ view' = NoView
  /\ cleanup' = NoCleanup
  /\ UNCHANGED <<users, weeks, dailies, meas, wb, adh>>

\* lines 21-25: wk = select(Week).where(user_id, start_date).first(); return
\* it when found
WeekCallLookup(i) ==
  LET c == calls[i]
      found == find_week(weeks, user_id, monday_start(c.d))
  IN /\ c.pc = "lookup"
     /\ calls' = [calls EXCEPT ![i] =
                    IF found # {} THEN [c EXCEPT !.pc = "done", !.id = First(found).id]
                    ELSE [c EXCEPT !.pc = "last"]]
     /\ UNCHANGED <<users, weeks, dailies, meas, wb, adh, msg, csv, view, cleanup>>

\* lines 27-30: last = select(Week)...order_by(week_number.desc()).first();
\* next_num = last.week_number + 1 or 1
WeekCallLast(i) ==
  LET c == calls[i]
  IN /\ c.pc = "last"
     /\ calls' = [calls EXCEPT ![i] = [c EXCEPT !.pc = "add",
                                                !.num = next_num(weeks, user_id)]]
     /\ UNCHANGED <<users, weeks, dailies, meas, wb, adh, msg, csv, view, cleanup>>

\* lines 31-34: sess.add(wk); sess.commit(): the INSERT and its COMMIT
WeekCallCommit(i) ==
  LET c == calls[i]
      wk == [id |-> NextId(weeks), user_id |-> user_id, week_number |-> c.num,
             start_date |-> monday_start(c.d)]
  IN /\ c.pc = "add"
     /\ WeeksWithin([DB EXCEPT !.weeks = @ \cup {wk}])
     /\ weeks' = weeks \cup {wk}
     /\ calls' = [calls EXCEPT ![i] = [c EXCEPT !.pc = "done", !.id = wk.id,
                                                !.created = TRUE]]
     /\ UNCHANGED <<users, dailies, meas, wb, adh, msg, csv, view, cleanup>>

\* ------------------------------------------- schema constraints (models.py)
\* week_id: unique=True on measurement, wellbeing and adherence: an INSERT of
\* a second row for a week raises IntegrityError and stores nothing
sql_insert(T, row) ==
  IF \E r \in T : r.week_id = row.week_id THEN T ELSE T \cup {row}

\* select(model).where(model.user_id == uid, model.week_id == wid)
select_weekly(T, uid, wid) == {r \in T : r.user_id = uid /\ r.week_id = wid}

\* ------------------------------------------- pages/2 Data Entry: handlers
\* the upsert of "Save weekly check-in": every field of the table is assigned
entry_upsert_dup(T, fields, uid, wid, vals) ==
  T \cup {[f \in fields \cup {"id", "user_id", "week_id"} |->
             IF f \in fields THEN vals[f]
             ELSE NewWeekly(fields, NextId(T), uid, wid)[f]]}

entry_upsert(T, fields, uid, wid, vals) ==
  LET ex == select_weekly(T, uid, wid)
      row == IF ex # {} THEN First(ex) ELSE NewWeekly(fields, NextId(T), uid, wid)
      upd == [f \in DOMAIN row |-> IF f \in fields THEN vals[f] ELSE row[f]]
  IN IF ex # {} THEN (T \ {row}) \cup {upd} ELSE sql_insert(T, upd)

\* a run of the page with no button pressed: the weekly tab resolves the week
\* of its date input
DataEntryRender(wd) ==
  LET r == get_or_create_week(DB, user_id, wd)
  IN /\ HasUser
     /\ WeeksWithin(r.db)
     /\ SetDB(r.db)
     /\ msg' = "entry"
     /\ calls' = <<Call(wd, r)>>
     /\ csv' = NoCsv
     /\ view' = NoView
     /\ cleanup' = NoCleanup
     /\ UNCHANGED users

\* a run with "Save daily entry" pressed (the weekly tab renders after it)
SaveDaily(d, weight, steps, wd) ==
  LET r1 == get_or_create_week(DB, user_id, d)
      dm == [id |-> NextId(dailies), user_id |-> user_id, date |-> d,
             week_id |-> r1.wk.id,
             weight_kg |-> (IF weight = 0 THEN None ELSE weight),
             steps |-> (IF steps # 0 THEN steps ELSE None),
             run_km |-> steps_to_km(steps)]
      db2 == [r1.db EXCEPT !.dailies = @ \cup {dm}]
      r2 == get_or_create_week(db2, user_id, wd)
  IN /\ HasUser
     /\ Cardinality(dailies) < MaxDaily
     /\ WeeksWithin(r2.db)
     /\ SetDB(r2.db)
     /\ msg' = "Saved daily entry"
     /\ calls' = <<Call(wd, r2)>>
     /\ csv' = NoCsv
     /\ view' = NoView
     /\ cleanup' = NoCleanup
     /\ UNCHANGED users

\* a run with "Save weekly check-in" pressed; m, w, a are the widget values
SaveWeekly(wd, m, w, a) ==
  LET r == get_or_create_week(DB, user_id, wd)
      wk_id == r.wk.id
      mv == [f \in MeasFields |-> OrNone(m[f])]
      db2 == [r.db EXCEPT
                !.meas = entry_upsert(@, MeasFields, user_id, wk_id, mv),
                !.wb = entry_upsert(@, WbFields, user_id, wk_id, w),
                !.adh = entry_upsert(@, AdhFields, user_id, wk_id, a)]
  IN /\ HasUser
     /\ WeeksWithin(db2)
     /\ SetDB(db2)
     /\ msg' = "Saved weekly check-in"
     /\ calls' = <<>>
     /\ csv' = NoCsv
     /\ view' = NoView
     /\ cleanup' = NoCleanup
     /\ UNCHANGED users

\* ---------------------------------------- pages/3 Import / Export: import
\* an uploaded CSV: its (lower-cased, trimmed) header and its rows; a row maps
\* each column of the header to a cell, None for a blank cell
required_few == {"date", "week_number", "start_date"}

required == {"date", "weight_kg", "steps", "week_number", "start_date"}

\* the fields coerced with int(): "score" in f or "issues" in f
IsIntField(f) == f \in WbFields \cup AdhFields

\* lines 63-67: the Week of the row's start_date, created with the row's
\* week_number when missing; int(NaN) raises
import_week(db, uid, row) ==
  LET found == find_week(db.weeks, uid, row.start_date)
  IN IF found # {}
     THEN [db |-> db, wk |-> First(found), created |-> FALSE, ok |-> TRUE]
     ELSE IF row.week_number = None
     THEN [db |-> db, wk |-> None, created |-> FALSE, ok |-> FALSE]
     ELSE LET wk == [id |-> NextId(db.weeks), user_id |-> uid,
                     week_number |-> IntOf(row.week_number),
                     start_date |-> row.start_date]
          IN [db |-> [db EXCEPT !.weeks = @ \cup {wk}], wk |-> wk,
              created |-> TRUE, ok |-> TRUE]

\* lines 74-75: the distance derived from the steps just stored
import_km(st) == IF st # None THEN Ratio(st * 8, 1780 * 5) ELSE NoRatio

\* lines 69-77: upsert of the DailyMetric of (user, date)
import_daily_insert(ds, uid, row, wid) ==
  LET st == IF row.steps # None THEN IntOf(row.steps) ELSE None
  IN ds \cup {[id |-> NextId(ds), user_id |-> uid, date |-> row.date,
               week_id |-> wid, weight_kg |-> row.weight_kg, steps |-> st,
               run_km |-> import_km(st)]}
import_daily(ds, uid, row, wid) ==
  LET ex == {dm \in ds : dm.user_id = uid /\ dm.date = row.date}
      dm == IF ex # {} THEN First(ex)
            ELSE [id |-> NextId(ds), user_id |-> uid, date |-> row.date,
                  week_id |-> wid, weight_kg |-> None, steps |-> None,
                  run_km |-> NoRatio]
      st == IF row.steps # None THEN IntOf(row.steps) ELSE None
  IN (ds \ {dm}) \cup
       {[dm EXCEPT !.weight_kg = row.weight_kg,
                   !.steps = st,
                   !.run_km = import_km(st),
                   !.week_id = wid]}

\* lines 79-89: assign_weekly(model_cls, fields)
assign_weekly_new(T, fields, uid, wid, cols, row) ==
  LET setf == {f \in fields : f \in cols /\ row[f] # None}
      new == NewWeekly(fields, NextId(T), uid, wid)
  IN IF setf = {} THEN T
     ELSE T \cup {[f \in DOMAIN new |->
                     IF f \in setf
                     THEN (IF IsIntField(f) THEN IntOf(row[f]) ELSE row[f])
                     ELSE new[f]]}

assign_weekly(T, fields, uid, wid, cols, row) ==
  LET ex == select_weekly(T, uid, wid)
      existing == IF ex # {} THEN First(ex) ELSE NewWeekly(fields, NextId(T), uid, wid)
      setf == {f \in fields : f \in cols /\ row[f] # None}
      upd == [f \in DOMAIN existing |->
                IF f \in setf
                THEN (IF IsIntField(f) THEN IntOf(row[f]) ELSE row[f])
                ELSE existing[f]]
  IN IF setf = {} THEN T
     ELSE IF ex # {} THEN (T \ {existing}) \cup {upd}
     ELSE sql_insert(T, upd)

\* one iteration of "for _, row in df.iterrows()"
import_row(db, uid, cols, row) ==
  LET w == import_week(db, uid, row)
  IN IF ~w.ok THEN [db |-> db, ok |-> FALSE]
     ELSE [db |-> [w.db EXCEPT
                     !.dailies = import_daily(@, uid, row, w.wk.id),
                     !.meas = assign_weekly(@, MeasFields, uid, w.wk.id, cols, row),
                     !.wb = assign_weekly(@, WbFields, uid, w.wk.id, cols, row),
                     !.adh = assign_weekly(@, AdhFields, uid, w.wk.id, cols, row)],
           ok |-> TRUE]

\* the loop: every row commits on its own, an exception ends the run
RECURSIVE import_rows(_, _, _, _)
import_rows(db, uid, cols, rows) ==
  IF rows = <<>> THEN [db |-> db, ok |-> TRUE]
  ELSE LET r == import_row(db, uid, cols, Head(rows))
       IN IF ~r.ok THEN r ELSE import_rows(r.db, uid, cols, Tail(rows))

DailiesWithin(db) == Cardinality(db.dailies) <= MaxDaily

\* a run of the page with a file uploaded and "Import" pressed
ImportCSV(c) ==
  /\ HasUser
  /\ IF ~(required \subseteq c.cols)
     THEN /\ msg' = "Missing columns"
          /\ UNCHANGED <<weeks, dailies, meas, wb, adh>>
     ELSE LET r == import_rows(DB, user_id, c.cols, c.rows)
          IN /\ WeeksWithin(r.db)
             /\ DailiesWithin(r.db)
             /\ SetDB(r.db)
             /\ msg' = IF r.ok THEN "Imported" ELSE "exception"
  /\ csv' = c
  /\ view' = NoView
  /\ calls' = <<>>
  /\ cleanup' = NoCleanup
  /\ UNCHANGED users

\* --------------------------------------- pages/3 Import / Export: cleanup
InRange(d, lo, hi) == d >= lo /\ d <= hi

\* q_daily and touched_week_ids of both date-range handlers
q_daily(ds, d_from, d_to) == {dm \in ds : InRange(dm.date, d_from, d_to)}

touched_after_delete(ds, d_from, d_to) ==
  {dm.week_id : dm \in {x \in q_daily(ds \ q_daily(ds, d_from, d_to), d_from, d_to) :
                         x.week_id # None}}

touched_week_ids(ds, d_from, d_to) ==
  {dm.week_id : dm \in {x \in q_daily(ds, d_from, d_to) : x.week_id # None}}

\* lines 150-175: "Preview impact" of the date-range mode
preview_empty_touched(ds, d_from, d_to) == touched_week_ids(ds, d_from, d_to)
preview_empty_weeks(ds, d_from, d_to) ==
  {wid \in touched_week_ids(ds, d_from, d_to) :
     {dm \in ds : dm.week_id = wid /\ ~InRange(dm.date, d_from, d_to)} = {}}

PreviewByDate(d_from, d_to, also_delete_weekly) ==
  /\ cleanup' = [op |-> "preview_by_date", d_from |-> d_from, d_to |-> d_to,
                 weekly |-> also_delete_weekly,
                 daily |-> Cardinality(q_daily(dailies, d_from, d_to)),
                 touched |-> touched_week_ids(dailies, d_from, d_to),
                 listed |-> also_delete_weekly /\ touched_week_ids(dailies, d_from, d_to) # {},
                 empty |-> IF also_delete_weekly
                           THEN preview_empty_weeks(dailies, d_from, d_to) ELSE {}]
  /\ msg' = "preview"
  /\ calls' = <<>>
  /\ csv' = NoCsv
  /\ view' = NoView
  /\ UNCHANGED <<users, weeks, dailies, meas, wb, adh>>

\* lines 196-201: the weeks that became empty, decided after the deletion
remaining_in_range(ds, wid, d_from, d_to) ==
  {dm \in ds : dm.week_id = wid /\ InRange(dm.date, d_from, d_to)}

remaining(ds, wid, d_from, d_to) == {dm \in ds : dm.week_id = wid}

\* lines 182-212: the confirmed deletion of the date-range mode
delete_by_date_flat(db, d_from, d_to, also_delete_weekly, delete_empty_weeks) ==
  LET touched == touched_week_ids(db.dailies, d_from, d_to)
      ds == {dm \in db.dailies : ~InRange(dm.date, d_from, d_to)}
      empty_weeks == {wid \in touched : remaining(ds, wid, d_from, d_to) = {}}
      db1 == [db EXCEPT !.dailies = ds]
      db2 == IF also_delete_weekly
             THEN [db1 EXCEPT !.meas = {r \in @ : r.week_id \notin empty_weeks},
                              !.wb = {r \in @ : r.week_id \notin empty_weeks},
                              !.adh = {r \in @ : r.week_id \notin empty_weeks}]
             ELSE db1
      db3 == IF delete_empty_weeks
             THEN [db2 EXCEPT !.weeks = {w \in @ : w.id \notin empty_weeks}]
             ELSE db2
  IN [db |-> db3,
      touched |-> touched,
      empty |-> IF also_delete_weekly THEN empty_weeks ELSE {}]
delete_by_date(db, d_from, d_to, also_delete_weekly, delete_empty_weeks) ==
  LET touched == touched_week_ids(db.dailies, d_from, d_to)
      ds == {dm \in db.dailies : ~InRange(dm.date, d_from, d_to)}
      empty_weeks == {wid \in touched : remaining(ds, wid, d_from, d_to) = {}}
      db1 == [db EXCEPT !.dailies = ds]
      db2 == [db1 EXCEPT !.meas = {r \in @ : r.week_id \notin empty_weeks},
                         !.wb = {r \in @ : r.week_id \notin empty_weeks},
                         !.adh = {r \in @ : r.week_id \notin empty_weeks}]
      db3 == [db2 EXCEPT !.weeks = {w \in @ : w.id \notin empty_weeks}]
  IN [db |-> IF also_delete_weekly /\ touched # {} /\ empty_weeks # {}
             THEN (IF delete_empty_weeks THEN db3 ELSE db2)
             ELSE db1,
      touched |-> touched,
      empty |-> IF also_delete_weekly THEN empty_weeks ELSE {}]

\* the guard of both "Delete now" buttons
confirmed_any(confirm) == TRUE

confirmed(confirm) == confirm = "DELETE"

DeleteByDate(confirm, d_from, d_to, also_delete_weekly, delete_empty_weeks) ==
  LET r == delete_by_date(DB, d_from, d_to, also_delete_weekly, delete_empty_weeks)
  IN /\ IF ~confirmed(confirm)
        THEN /\ msg' = "Please type DELETE to confirm."
             /\ cleanup' = [op |-> "delete_by_date", confirm |-> confirm]
             /\ UNCHANGED <<weeks, dailies, meas, wb, adh>>
        ELSE /\ SetDB(r.db)
             /\ msg' = "Deletion completed"
             /\ cleanup' = [op |-> "delete_by_date", confirm |-> confirm,
                            d_from |-> d_from, d_to |-> d_to,
                            weekly |-> also_delete_weekly,
                            weeks |-> delete_empty_weeks,
                            touched |-> r.touched, empty |-> r.empty]
     /\ calls' = <<>>
     /\ csv' = NoCsv
     /\ view' = NoView
     /\ UNCHANGED users

\* lines 245-264: the confirmed deletion of the week-number mode
delete_by_week_nested(db, wk_from, wk_to, also_delete_weekly2, delete_weeks2) ==
  LET wids == {w.id : w \in {x \in db.weeks : InRange(x.week_number, wk_from, wk_to)}}
      db1 == [db EXCEPT !.dailies = {dm \in @ : dm.week_id \notin wids}]
      db2 == [db1 EXCEPT !.meas = {r \in @ : r.week_id \notin wids},
                         !.wb = {r \in @ : r.week_id \notin wids},
                         !.adh = {r \in @ : r.week_id \notin wids}]
      db3 == [db2 EXCEPT !.weeks = {w \in @ : w.id \notin wids}]
  IN [db |-> IF wids = {} THEN db
             ELSE IF ~also_delete_weekly2 THEN db1
             ELSE IF delete_weeks2 THEN db3 ELSE db2,
      wids |-> wids]
delete_by_week(db, wk_from, wk_to, also_delete_weekly2, delete_weeks2) ==
  LET wids == {w.id : w \in {x \in db.weeks : InRange(x.week_number, wk_from, wk_to)}}
      db1 == [db EXCEPT !.dailies = {dm \in @ : dm.week_id \notin wids}]
      db2 == IF also_delete_weekly2
             THEN [db1 EXCEPT !.meas = {r \in @ : r.week_id \notin wids},
                              !.wb = {r \in @ : r.week_id \notin wids},
                              !.adh = {r \in @ : r.week_id \notin wids}]
             ELSE db1
      db3 == IF delete_weeks2
             THEN [db2 EXCEPT !.weeks = {w \in @ : w.id \notin wids}]
             ELSE db2
  IN [db |-> IF wids # {} THEN db3 ELSE db, wids |-> wids]

DeleteByWeek(confirm2, wk_from, wk_to, also_delete_weekly2, delete_weeks2) ==
  LET r == delete_by_week(DB, wk_from, wk_to, also_delete_weekly2, delete_weeks2)
  IN /\ IF ~confirmed(confirm2)
        THEN /\ msg' = "Please type DELETE to confirm."
             /\ cleanup' = [op |-> "delete_by_week", confirm |-> confirm2]
             /\ UNCHANGED <<weeks, dailies, meas, wb, adh>>
        ELSE /\ SetDB(r.db)
             /\ msg' = "Deletion completed for selected weeks"
             /\ cleanup' = [op |-> "delete_by_week", confirm |-> confirm2,
                            wk_from |-> wk_from, wk_to |-> wk_to,
                            weekly |-> also_delete_weekly2, weeks |-> delete_weeks2,
                            wids |-> r.wids]
     /\ calls' = <<>>
     /\ csv' = NoCsv
     /\ view' = NoView
     /\ UNCHANGED users

\* lines 189-212 and 251-264 when a statement raises: the session is closed
\* without a commit, so the store keeps what the commits before it wrote.
\* at = "weekly": the first DELETE of a weekly table raises; at = "weeks": the
\* DELETE of the Week rows raises. reached: the run gets to that statement
delete_by_date_rollback(db, d_from, d_to, also_delete_weekly, delete_empty_weeks, at) ==
  LET touched == touched_week_ids(db.dailies, d_from, d_to)
      ds == {dm \in db.dailies : ~InRange(dm.date, d_from, d_to)}
      empty_weeks == {wid \in touched : remaining(ds, wid, d_from, d_to) = {}}
  IN [reached |-> /\ also_delete_weekly /\ touched # {} /\ empty_weeks # {}
                  /\ (at = "weeks" => delete_empty_weeks),
      db |-> db]

delete_by_date_failed(db, d_from, d_to, also_delete_weekly, delete_empty_weeks, at) ==
  LET touched == touched_week_ids(db.dailies, d_from, d_to)
      ds == {dm \in db.dailies : ~InRange(dm.date, d_from, d_to)}
      empty_weeks == {wid \in touched : remaining(ds, wid, d_from, d_to) = {}}
      db1 == [db EXCEPT !.dailies = ds]
      db2 == [db1 EXCEPT !.meas = {r \in @ : r.week_id \notin empty_weeks},
                         !.wb = {r \in @ : r.week_id \notin empty_weeks},
                         !.adh = {r \in @ : r.week_id \notin empty_weeks}]
  IN [reached |-> /\ also_delete_weekly /\ touched # {} /\ empty_weeks # {}
                  /\ (at = "weeks" => delete_empty_weeks),
      db |-> IF at = "weekly" THEN db1 ELSE db2]

delete_by_week_failed(db, wk_from, wk_to, also_delete_weekly2, delete_weeks2, at) ==
  LET wids == {w.id : w \in {x \in db.weeks : InRange(x.week_number, wk_from, wk_to)}}
      db1 == [db EXCEPT !.dailies = {dm \in @ : dm.week_id \notin wids}]
      db2 == IF also_delete_weekly2
             THEN [db1 EXCEPT !.meas = {r \in @ : r.week_id \notin wids},
                              !.wb = {r \in @ : r.week_id \notin wids},
                              !.adh = {r \in @ : r.week_id \notin wids}]
             ELSE db1
  IN [reached |-> /\ wids # {}
                  /\ (at = "weekly" => also_delete_weekly2)
                  /\ (at = "weeks" => delete_weeks2),
      db |-> IF at = "weekly" THEN db1 ELSE db2]

\* a confirmed "Delete now" of the date-range mode that raises at `at`
DeleteByDateFails(d_from, d_to, also_delete_weekly, delete_empty_weeks, at) ==
  LET r == delete_by_date_failed(DB, d_from, d_to, also_delete_weekly, delete_empty_weeks, at)
  IN /\ r.reached
     /\ SetDB(r.db)
     /\ msg' = "error"
     /\ cleanup' = [op |-> "delete_by_date_failed", at |-> at,
                    d_from |-> d_from, d_to |-> d_to,
                    weekly |-> also_delete_weekly, weeks |-> delete_empty_weeks,
                    before |-> DB]
     /\ calls' = <<>>
     /\ csv' = NoCsv
     /\ view' = NoView
     /\ UNCHANGED users

\* a confirmed "Delete now" of the week-number mode that raises at `at`
DeleteByWeekFails(wk_from, wk_to, also_delete_weekly2, delete_weeks2, at) ==
  LET r == delete_by_week_failed(DB, wk_from, wk_to, also_delete_weekly2, delete_weeks2, at)
  IN /\ r.reached
     /\ SetDB(r.db)
     /\ msg' = "error"
     /\ cleanup' = [op |-> "delete_by_week_failed", at |-> at,
                    wk_from |-> wk_from, wk_to |-> wk_to,
                    weekly |-> also_delete_weekly2, weeks |-> delete_weeks2,
                    before |-> DB]
     /\ calls' = <<>>
     /\ csv' = NoCsv
     /\ view' = NoView
     /\ UNCHANGED users

\* ------------------------------------------- pages/5 Manage Data: daily tab
\* the grid row of a DailyMetric row; steps is shown as a decimal, run_km is
\* read-only
daily_grid_row(dm) ==
  [id |-> dm.id, date |-> dm.date, week_id |-> dm.week_id,
   weight_kg |-> dm.weight_kg,
   steps |-> IF dm.steps = None THEN None ELSE dm.steps * 10]

\* the grid as the operator left it: e replaces the editable cells of the row
\* with e.id
daily_edited(ds, uid, e) ==
  {IF dm.id = e.id THEN e ELSE daily_grid_row(dm) : dm \in {x \in ds : x.user_id = uid}}

\* lines 57-61: run_km kept derived from steps
manage_km(st) == IF st # None THEN Ratio(st * 8, 1780 * 5) ELSE NoRatio

\* lines 46-63: one iteration of the loop over the edited grid
manage_save_daily_row(dm, r) ==
  LET st == IF r.steps # None THEN IntOf(r.steps) ELSE None
  IN [dm EXCEPT !.date = r.date,
                !.week_id = IF r.week_id # None THEN r.week_id ELSE @,
                !.weight_kg = r.weight_kg,
                !.steps = st,
                !.run_km = manage_km(st)]

\* the loop: sess.get by id, rows of the grid have distinct ids
manage_save_daily(ds, rows) ==
  {IF \E r \in rows : r.id = dm.id
   THEN manage_save_daily_row(dm, CHOOSE r \in rows : r.id = dm.id)
   ELSE dm : dm \in ds}

\* a run of the page with "Save changes" pressed on the daily tab
ManageSaveDaily(e) ==
  /\ HasUser
  /\ {dm \in dailies : dm.user_id = user_id} # {}
  /\ e.id \in Ids(dailies)
  /\ dailies' = manage_save_daily(dailies, daily_edited(dailies, user_id, e))
  /\ msg' = "Daily changes saved."
  /\ calls' = <<>>
  /\ csv' = NoCsv
  /\ view' = NoView
  /\ cleanup' = NoCleanup
  /\ UNCHANGED <<users, weeks, meas, wb, adh>>

\* ------------------------------------------ pages/5 Manage Data: weekly tab
\* lines 87-96: the columns of the merged grid beyond week_id, week_number,
\* start_date: a table contributes its columns when it has a row
grid_columns(db, uid) ==
  (IF \E r \in db.meas : r.user_id = uid THEN MeasFields ELSE {}) \cup
  (IF \E r \in db.wb : r.user_id = uid THEN WbFields ELSE {}) \cup
  (IF \E r \in db.adh : r.user_id = uid THEN AdhFields ELSE {})

TableOf(db, f) ==
  IF f \in MeasFields THEN db.meas ELSE IF f \in WbFields THEN db.wb ELSE db.adh

\* the cell of column f in the grid row of week w (left join on week_id);
\* an integer column is shown as a decimal
grid_cell(db, uid, w, f) ==
  LET rs == select_weekly(TableOf(db, f), uid, w.id)
  IN IF rs = {} \/ First(rs)[f] = None THEN None
     ELSE IF IsIntField(f) THEN First(rs)[f] * 10 ELSE First(rs)[f]

\* the grid rows as the operator left them: e changes the start_date of one
\* row and, when e.field is a column of the grid, one cell of it
edited_row(db, uid, w, e) ==
  [week_id |-> w.id, week_number |-> w.week_number,
   start_date |-> IF e.week_id = w.id THEN e.start_date ELSE w.start_date,
   cells |-> [f \in grid_columns(db, uid) |->
                IF e.week_id = w.id /\ e.field = f THEN e.value
                ELSE grid_cell(db, uid, w, f)]]

\* lines 121-128: upsert(model, fields) of one grid row
manage_upsert_existing(T, fields, uid, r) ==
  LET ex == select_weekly(T, uid, r.week_id)
  IN IF ex = {} THEN T
     ELSE (T \ {First(ex)}) \cup
          {[f \in DOMAIN First(ex) |->
              IF f \in fields /\ f \in DOMAIN r.cells
              THEN (IF r.cells[f] = None THEN None
                    ELSE IF IsIntField(f) THEN IntOf(r.cells[f]) ELSE r.cells[f])
              ELSE First(ex)[f]]}

manage_upsert(T, fields, uid, r) ==
  LET ex == select_weekly(T, uid, r.week_id)
      row == IF ex # {} THEN First(ex) ELSE NewWeekly(fields, NextId(T), uid, r.week_id)
      upd == [f \in DOMAIN row |->
                IF f \in fields /\ f \in DOMAIN r.cells
                THEN (IF r.cells[f] = None THEN None
                      ELSE IF IsIntField(f) THEN IntOf(r.cells[f]) ELSE r.cells[f])
                ELSE row[f]]
  IN IF ex # {} THEN (T \ {row}) \cup {upd} ELSE sql_insert(T, upd)

\* lines 117-120: the write-back of the row's start_date
set_start_date(ws, r) ==
  {IF w.id = r.week_id THEN [w EXCEPT !.start_date = r.start_date] ELSE w : w \in ws}

\* lines 116-131: one iteration of the loop over the edited grid
manage_save_row(db, uid, r) ==
  [db EXCEPT !.weeks = set_start_date(@, r),
             !.meas = manage_upsert(@, MeasFields, uid, r),
             !.wb = manage_upsert(@, WbFields, uid, r),
             !.adh = manage_upsert(@, AdhFields, uid, r)]

\* the grid is sorted by week_number (rows of equal number in table order)
RECURSIVE SortedWeeks(_)
SortedWeeks(ws) ==
  IF ws = {} THEN <<>>
  ELSE LET w == CHOOSE x \in ws : \A y \in ws :
                  \/ x.week_number < y.week_number
                  \/ (x.week_number = y.week_number /\ x.id <= y.id)
       IN <<w>> \o SortedWeeks(ws \ {w})

RECURSIVE manage_save_rows(_, _, _)
manage_save_rows(db, uid, rows) ==
  IF rows = <<>> THEN db
  ELSE manage_save_rows(manage_save_row(db, uid, Head(rows)), uid, Tail(rows))

\* a run of the page with "Save weekly changes" pressed
ManageSaveWeekly(e) ==
  LET mine == {w \in weeks : w.user_id = user_id}
      ord == SortedWeeks(mine)
      rows == [i \in 1..Len(ord) |-> edited_row(DB, user_id, ord[i], e)]
  IN /\ HasUser
     /\ mine # {}
     /\ e.week_id \in Ids(mine)
     /\ e.field \in grid_columns(DB, user_id) \cup {"none"}
     /\ WeeksWithin(manage_save_rows(DB, user_id, rows))
     /\ SetDB(manage_save_rows(DB, user_id, rows))
     /\ msg' = "Weekly changes saved."
     /\ calls' = <<>>
     /\ csv' = NoCsv
     /\ view' = NoView
     /\ cleanup' = NoCleanup
     /\ UNCHANGED users

\* lines 135-146: "Delete selected week rows (all weekly records)"
manage_delete_weekly_all(T, uid, ids) == {r \in T : r.user_id # uid}

manage_delete_weekly(T, uid, ids) ==
  {r \in T : ~(r.week_id \in ids /\ r = First(select_weekly(T, uid, r.week_id)))}

ManageDeleteWeekly(ids) ==
  /\ HasUser
  /\ {w \in weeks : w.user_id = user_id} # {}
  /\ ids \subseteq Ids(weeks)
  /\ IF ids = {}
     THEN /\ msg' = "Select at least one row."
          /\ UNCHANGED <<meas, wb, adh>>
     ELSE /\ meas' = manage_delete_weekly(meas, user_id, ids)
          /\ wb' = manage_delete_weekly(wb, user_id, ids)
          /\ adh' = manage_delete_weekly(adh, user_id, ids)
          /\ msg' = "Deleted weekly records"
  /\ calls' = <<>>
  /\ csv' = NoCsv
  /\ view' = NoView
  /\ cleanup' = IF ids = {} THEN NoCleanup
                ELSE [op |-> "manage_delete_weekly", ids |-> ids]
  /\ UNCHANGED <<users, weeks, dailies>>

\* ------------------------------------------------------------------ utils.py
RatAdd(a, b) == Ratio(a.num * b.den + b.num * a.den, a.den * b.den)
\* a - b of two floats: NaN when either is NaN
RatSub(a, b) ==
  IF a.den = 0 \/ b.den = 0 THEN NoRatio
  ELSE Ratio(a.num * b.den - b.num * a.den, a.den * b.den)

\* lines 84-92: load_daily_df, the DailyMetric rows of the user
load_daily_df(db, uid) == {dm \in db.dailies : dm.user_id = uid}

RECURSIVE SumOf(_, _)
SumOf(rows, f) ==
  IF rows = {} THEN 0
  ELSE LET r == CHOOSE x \in rows : TRUE IN r[f] + SumOf(rows \ {r}, f)

\* the "mean" aggregate of a column: NaN is skipped, no value gives NaN
mean_of(rows, f) ==
  LET P == {r \in rows : r[f] # None}
  IN IF P = {} THEN NoRatio ELSE Ratio(SumOf(P, f), Cardinality(P))

\* a sorts before b, or with it; NaN sorts last
NaLast(a, b) == b = None \/ (a # None /\ a <= b)

\* groupby sorts its keys; dropna=False keeps the NaN key
RECURSIVE SortedKeys(_)
SortedKeys(K) ==
  IF K = {} THEN <<>>
  ELSE LET k == CHOOSE x \in K : \A y \in K : NaLast(x, y)
       IN <<k>> \o SortedKeys(K \ {k})

\* lines 114-118: the aggregates of the dailies, one row per week_id value
weekly_avg(d) ==
  LET ks == SortedKeys({dm.week_id : dm \in d})
  IN [i \in 1..Len(ks) |->
        [week_id |-> ks[i],
         avg_weight_kg |-> mean_of({dm \in d : dm.week_id = ks[i]}, "weight_kg"),
         avg_steps |-> mean_of({dm \in d : dm.week_id = ks[i]}, "steps")]]

\* lines 132-148: the cell a weekly table contributes to the row of week_id
\* wid: of the rows of that week the one with the largest id, NaN without one
weekly_cell(db, uid, wid, f) ==
  LET rs == {r \in TableOf(db, f) : r.user_id = uid /\ r.week_id = wid}
  IN IF rs = {} THEN None ELSE (CHOOSE r \in rs : \A q \in rs : q.id <= r.id)[f]

\* lines 120-148: the left merges onto a row of avg
weekly_merged(db, uid, a) ==
  LET m == {w \in db.weeks : w.user_id = uid /\ w.id = a.week_id}
      wk == CHOOSE w \in m : TRUE
  IN [week_id |-> a.week_id,
      avg_weight_kg |-> a.avg_weight_kg,
      avg_steps |-> a.avg_steps,
      week_number |-> IF m = {} THEN None ELSE wk.week_number,
      start_date |-> IF m = {} THEN None ELSE wk.start_date,
      cells |-> [f \in MeasFields \cup WbFields \cup AdhFields |->
                   weekly_cell(db, uid, a.week_id, f)],
      weekly_weight_loss |-> NoRatio]

\* line 152: sort_values("week_number", na_position="last"); for a frame of
\* a few rows the sort is an insertion sort, which keeps equal keys in order
sort_values_none(rows) == rows
RECURSIVE sort_values(_)
sort_values(rows) ==
  IF rows = <<>> THEN <<>>
  ELSE LET n == Len(rows)
           head == sort_values(SubSeq(rows, 1, n - 1))
           p == Cardinality({i \in 1..Len(head) :
                               NaLast(head[i].week_number, rows[n].week_number)})
       IN SubSeq(head, 1, p) \o <<rows[n]>> \o SubSeq(head, p + 1, Len(head))

\* line 153: Series.diff(1), the value minus the value one position before
diff(col) ==
  [i \in 1..Len(col) |-> IF i = 1 THEN NoRatio ELSE RatSub(col[i], col[i - 1])]

\* lines 95-157: load_weekly_df
load_weekly_df(db, uid) ==
  LET d == load_daily_df(db, uid)
      avg == weekly_avg(d)
      out == sort_values([i \in 1..Len(avg) |-> weekly_merged(db, uid, avg[i])])
      loss == diff([i \in 1..Len(out) |-> out[i].avg_weight_kg])
  IN IF d = {} THEN <<>>
     ELSE [i \in 1..Len(out) |-> [out[i] EXCEPT !.weekly_weight_loss = loss[i]]]

\* pandas rolling mean: a running sum and a count of the values in the
\* window; entering values are added, values leaving the window are removed,
\* NaN is neither
RECURSIVE roll_state(_, _, _)
roll_state(series, window, i) ==
  IF i = 0 THEN [sum |-> Ratio(0, 1), nobs |-> 0]
  ELSE LET prev == roll_state(series, window, i - 1)
           add == IF series[i].den # 0
                  THEN [sum |-> RatAdd(prev.sum, series[i]), nobs |-> prev.nobs + 1]
                  ELSE prev
       IN IF i - window >= 1 /\ series[i - window].den # 0
          THEN [sum |-> RatSub(add.sum, series[i - window]), nobs |-> add.nobs - 1]
          ELSE add

\* lines 160-162: rolling_avg(series, window), min_periods=1
rolling_avg_full(series, window) ==
  [i \in 1..Len(series) |->
     LET s == roll_state(series, window, i)
     IN IF s.nobs >= window THEN Ratio(s.sum.num, s.sum.den * s.nobs) ELSE NoRatio]
rolling_avg(series, window) ==
  [i \in 1..Len(series) |->
     LET s == roll_state(series, window, i)
     IN IF s.nobs >= 1 THEN Ratio(s.sum.num, s.sum.den * s.nobs) ELSE NoRatio]

\* a run that applies rolling_avg to the series the view holds
RollingAvg ==
  /\ view.page = "series"
  /\ view' = [page |-> "rolling", series |-> view.series, window |-> view.window,
              out |-> rolling_avg(view.series, view.window)]
  /\ UNCHANGED <<users, weeks, dailies, meas, wb, adh, msg, calls, csv, cleanup>>

\* ------------------------------------------------------- pages/1 Dashboard
\* lines 16-18: steps_to_km(series), for one value of the series
dashboard_steps_to_km_stride(s) ==
  IF s.den = 0 THEN NoRatio ELSE Ratio(s.num * 8, s.den * 1780)
dashboard_steps_to_km(s) ==
  IF s.den = 0 THEN NoRatio ELSE Ratio(s.num * 8, s.den * (1780 * 5))

\* Series.round(2): the nearest hundredth, a half goes to the even neighbour;
\* the result is counted in hundredths, NaN stays NaN
round2(r) ==
  IF r.den = 0 THEN None
  ELSE LET q == (100 * r.num) \div r.den
           rem == (100 * r.num) % r.den
       IN IF 2 * rem > r.den \/ (2 * rem = r.den /\ q % 2 = 1) THEN q + 1 ELSE q

\* lines 79-101 (and Export Report 59-71): the rows of the range resampled to
\* one row per calendar day from its first to its last day, each the mean of
\* the day's rows
daily_day(d, date_start, date_end) ==
  LET sel == {dm \in d : date_start <= dm.date /\ dm.date <= date_end}
      lo == Min({dm.date : dm \in sel})
      hi == Max({dm.date : dm \in sel})
  IN IF sel = {} THEN <<>>
     ELSE [i \in 1..(hi - lo + 1) |->
             [day |-> lo + i - 1,
              weight_kg |-> mean_of({dm \in sel : dm.date = lo + i - 1}, "weight_kg"),
              steps |-> mean_of({dm \in sel : dm.date = lo + i - 1}, "steps")]]

\* load_expenses_df(sess, user_id), whose body is not part of utils.py: the
\* Expense rows of the user as a frame, empty when there is none; no page of
\* this model writes an Expense row
load_expenses_df(db, uid) == <<>>

\* lines 50-52: the test that ends the run with the empty-state message
dashboard_empty_never(daily_raw) == FALSE
dashboard_empty(daily_raw) == daily_raw = {}

\* a run of the Dashboard with the date range left at (first day, last day)
\* and the smoothing slider at smooth
DashboardRender(smooth) ==
  LET daily_raw == load_daily_df(DB, user_id)
      weekly == load_weekly_df(DB, user_id)
      expenses_df == load_expenses_df(DB, user_id)
      min_d == Min({dm.date : dm \in daily_raw})
      max_d == Max({dm.date : dm \in daily_raw})
      dd == IF daily_raw = {} THEN <<>> ELSE daily_day(daily_raw, min_d, max_d)
  IN /\ HasUser
     /\ view' = IF dashboard_empty(daily_raw)
                THEN [page |-> "dashboard",
                      info |-> "No data yet. Add entries in Data Entry.",
                      reached |-> {"load"}]
                ELSE [page |-> "dashboard", info |-> "none",
                      reached |-> {"load", "sidebar", "daily_day", "weekly_f",
                                   "kpi", "charts", "tables"},
                      weekly |-> weekly,
                      expenses |-> expenses_df,
                      day |-> dd,
                      km_calc |-> [i \in 1..Len(dd) |->
                                     round2(dashboard_steps_to_km(dd[i].steps))],
                      smooth |-> rolling_avg([i \in 1..Len(dd) |-> dd[i].weight_kg],
                                             smooth)]
     /\ msg' = "dashboard"
     /\ calls' = <<>>
     /\ csv' = NoCsv
     /\ cleanup' = NoCleanup
     /\ UNCHANGED <<users, weeks, dailies, meas, wb, adh>>

\* --------------------------------------------------- pages/6 Export Report
\* lines 35-37: steps_to_km(s), for one value of the series
export_steps_to_km(s) ==
  IF s.den = 0 THEN NoRatio ELSE Ratio(s.num * 8, s.den * (1780 * 5))

\* lines 50-52
export_empty(daily) == daily = {}

\* a run of Export Report with the date range left at (first day, last day);
\* without a user the frames are empty
ExportRender ==
  LET daily == IF HasUser THEN load_daily_df(DB, user_id) ELSE {}
      weekly == IF HasUser THEN load_weekly_df(DB, user_id) ELSE <<>>
      min_d == Min({dm.date : dm \in daily})
      max_d == Max({dm.date : dm \in daily})
      day == IF daily = {} THEN <<>> ELSE daily_day(daily, min_d, max_d)
  IN /\ view' = IF export_empty(daily)
                THEN [page |-> "export",
                      info |-> "No daily data to export yet. Add entries in Data Entry.",
                      reached |-> {"load"}]
                ELSE [page |-> "export", info |-> "none",
                      reached |-> {"load", "range", "day", "stats", "charts", "export"},
                      weekly |-> weekly,
                      day |-> day,
                      km_calc |-> [i \in 1..Len(day) |->
                                     round2(export_steps_to_km(day[i].steps))],
                      smooth |-> rolling_avg([i \in 1..Len(day) |-> day[i].weight_kg], 7)]
     /\ msg' = "export"
     /\ calls' = <<>>
     /\ csv' = NoCsv
     /\ cleanup' = NoCleanup
     /\ UNCHANGED <<users, weeks, dailies, meas, wb, adh>>

\* ------------------------------------------------------------ input sets
AllFields(fields, v) == [f \in fields |-> v]
\* the Mondays and one Wednesday
SomeDates == {d \in Dates : d % 7 = 0 \/ d = 2}

\* a CSV row with the required columns only
Row(num, start, d, weight, steps) ==
  [week_number |-> num, start_date |-> start, date |-> d, weight_kg |-> weight,
   steps |-> steps]

\* no cell of the grid edited, only the start_date of one row
StartDateEdits ==
  [week_id : 1..MaxWeeks, start_date : SomeDates, field : {"none"}, value : {None}]

\* one-row uploads of day 0 that name a week by number and start_date
WeekCsvs ==
  {[cols |-> required, rows |-> <<Row(10 * n, sd, 0, None, None)>>] :
     n \in 1..2, sd \in SomeDates}

Init ==
  /\ users = {}
  /\ weeks = {}
  /\ dailies = {}
  /\ meas = {}
  /\ wb = {}
  /\ adh = {}
  /\ msg = "none"
  /\ calls = <<>>
  /\ csv = NoCsv
  /\ cleanup = NoCleanup
  /\ view = NoView

\* --------------------------------------------------------- specifications
\* the home page and the week resolution of the data-entry page
NextHome ==
  \/ HomeRender
  \/ \E n \in {"You", "Asha"}, h \in {0, 1700}, g \in {0, 700}, u \in {"metric", "imperial"} :
       SaveProfile(n, h, g, u)
  \/ \E wd \in Dates : DataEntryRender(wd)

SpecHome == Init /\ [][NextHome]_vars

\* everything that creates or edits Week rows
NextWeeks ==
  \/ HomeRender
  \/ \E wd \in SomeDates : DataEntryRender(wd)
  \/ \E c \in WeekCsvs : ImportCSV(c)
  \/ \E e \in StartDateEdits : ManageSaveWeekly(e)

SpecWeeks == Init /\ [][NextWeeks]_vars

\* the cleanup expander on a store filled by data entry
Mondays == {d \in Dates : d % 7 = 0}
DailyDates == {1, 5}
Confirms == {"DELETE", "delete"}
\* [from, to] of the date-range mode and of the week-number mode
DateRanges == {<<0, 3>>, <<4, MaxDate>>, <<0, MaxDate>>}
WeekRanges == {<<1, 1>>, <<1, 2>>}
\* <<also remove weekly check-ins, delete the Week rows>> of the week-number mode
WeekOptions == {<<TRUE, TRUE>>, <<TRUE, FALSE>>, <<FALSE, FALSE>>}
NoMeas == AllFields(MeasFields, 0)
NoIssues == AllFields(WbFields, 0)
FullScores == AllFields(AdhFields, 10)

NextDelete ==
  \/ HomeRender
  \/ \E d \in DailyDates : SaveDaily(d, 0, 0, d)
  \/ \E wd \in Mondays : SaveWeekly(wd, NoMeas, NoIssues, FullScores)
  \/ \E r \in DateRanges, a \in BOOLEAN : PreviewByDate(r[1], r[2], a)
  \/ \E c \in Confirms, r \in DateRanges, a \in BOOLEAN, b \in BOOLEAN :
       DeleteByDate(c, r[1], r[2], a, b)
  \/ \E c \in Confirms, r \in WeekRanges, o \in WeekOptions :
       DeleteByWeek(c, r[1], r[2], o[1], o[2])

SpecDelete == Init /\ [][NextDelete]_vars

\* the date-range mode, preview and confirmed deletion, over stores written
\* by the data-entry page and relinked in the manage-data grid
SomeRanges == {<<0, 3>>, <<4, MaxDate>>}
\* the week_id cell of the first row of the manage-data grid retyped as 2
WeekIdEdits ==
  {[id |-> dm.id, date |-> dm.date, week_id |-> 2, weight_kg |-> dm.weight_kg,
    steps |-> None] : dm \in {x \in dailies : x.id = 1}}
NextDateDelete ==
  \/ HomeRender
  \/ \E d \in {1, 5} : SaveDaily(d, 0, 0, d)
  \/ \E e \in WeekIdEdits : ManageSaveDaily(e)
  \/ \E wd \in Mondays : SaveWeekly(wd, NoMeas, NoIssues, FullScores)
  \/ \E r \in SomeRanges : PreviewByDate(r[1], r[2], TRUE)
  \/ \E r \in SomeRanges, a \in BOOLEAN, b \in BOOLEAN :
       DeleteByDate("DELETE", r[1], r[2], a, b)

SpecDateDelete == Init /\ [][NextDateDelete]_vars

\* the week-number mode with every combination of its two options, over
\* stores written by the data-entry page
AllWeekRanges == {<<1, 1>>, <<2, 1>>}
NextWeekDelete ==
  \/ HomeRender
  \/ \E d \in {1, MaxDate} : SaveDaily(d, 0, 0, d)
  \/ \E wd \in Mondays : SaveWeekly(wd, NoMeas, NoIssues, FullScores)
  \/ \E r \in AllWeekRanges, a \in BOOLEAN, b \in BOOLEAN :
       DeleteByWeek("DELETE", r[1], r[2], a, b)

SpecWeekDelete == Init /\ [][NextWeekDelete]_vars

\* two sessions showing the weekly tab of the data-entry page
NextSessions ==
  \/ HomeRender
  \/ \E d \in SomeDates : WeekCallBegin(d)
  \/ \E i \in 1..Len(calls) : WeekCallLookup(i)
  \/ \E i \in 1..Len(calls) : WeekCallLast(i)
  \/ \E i \in 1..Len(calls) : WeekCallCommit(i)

SpecSessions == Init /\ [][NextSessions]_vars

\* the cleanup expander when a DELETE statement raises part-way
FailPoints == {"weekly", "weeks"}
NextPartial ==
  \/ HomeRender
  \/ \E d \in {1, MaxDate} : SaveDaily(d, 0, 0, d)
  \/ \E wd \in Mondays : SaveWeekly(wd, NoMeas, NoIssues, FullScores)
  \/ \E r \in SomeRanges, a, b \in BOOLEAN, at \in FailPoints :
       DeleteByDateFails(r[1], r[2], a, b, at)
  \/ \E r \in AllWeekRanges, a, b \in BOOLEAN, at \in FailPoints :
       DeleteByWeekFails(r[1], r[2], a, b, at)

SpecPartial == Init /\ [][NextPartial]_vars

\* the CSV import on a store that data entry may have filled
WeeklyCols == {"chest_in", "sleep_issues", "diet_score"}
WRow(num, start, chest, sleep, diet) ==
  [week_number |-> num, start_date |-> start, date |-> 0, weight_kg |-> None,
   steps |-> None, chest_in |-> chest, sleep_issues |-> sleep, diet_score |-> diet]
ImportRows ==
  {WRow(10, 0, 400, None, None), WRow(10, 0, 415, 20, 90),
   WRow(20, 7, None, None, None), WRow(None, 7, 400, 60, 110)}
\* the rows after the first of a file (after the second: the first of them)
FollowRows == {WRow(10, 0, 415, 20, 90), WRow(None, 7, 400, 60, 110)}
ImportCsvs ==
  {[cols |-> required \cup WeeklyCols, rows |-> rs] :
     rs \in {q \in UNION {[1..n -> ImportRows] : n \in 1..MaxRows} :
               \A i \in 2..Len(q) :
                 /\ q[i] \in FollowRows
                 /\ i > 2 => q[i] = WRow(10, 0, 415, 20, 90)}}
    \cup {[cols |-> required, rows |-> <<Row(10, 0, 0, None, None)>>]}
    \cup {[cols |-> (required \cup WeeklyCols) \ {c},
           rows |-> <<WRow(10, 0, 415, 20, 90)>>] : c \in required}
SomeMeas == AllFields(MeasFields, 300)

NextImport ==
  \/ HomeRender
  \/ \E wd \in Mondays : SaveWeekly(wd, SomeMeas, NoIssues, FullScores)
  \/ \E c \in ImportCsvs : ImportCSV(c)

SpecImport == Init /\ [][NextImport]_vars

\* every handler that writes or deletes weekly check-in rows
WeeklyCsvs ==
  {[cols |-> required \cup WeeklyCols, rows |-> <<r>>] :
     r \in {WRow(10, 0, 300, 0, 100), WRow(20, 7, 300, 0, 100)}}
\* one chest cell of the grid edited, or nothing edited
WeeklyEdits ==
  {[week_id |-> w.id, start_date |-> w.start_date, field |-> f, value |-> 300] :
     w \in weeks, f \in {"none", "chest_in"}}

NextWeekly ==
  \/ HomeRender
  \/ \E wd \in Mondays : SaveWeekly(wd, SomeMeas, NoIssues, FullScores)
  \/ \E c \in WeeklyCsvs : ImportCSV(c)
  \/ \E e \in WeeklyEdits : ManageSaveWeekly(e)
  \/ \E ids \in {{}, {1}, 1..MaxWeeks} : ManageDeleteWeekly(ids)
  \/ DeleteByDate("DELETE", 0, MaxDate, TRUE, TRUE)
  \/ \E a \in BOOLEAN : DeleteByWeek("DELETE", 1, 1, a, TRUE)

SpecWeekly == Init /\ [][NextWeekly]_vars

\* every handler that writes DailyMetric rows
DailyCsvs ==
  {[cols |-> required, rows |-> <<Row(10 * n, sd, d, None, st)>>] :
     n \in 1..2, sd \in Mondays, d \in DailyDates, st \in {None, 50}}
\* the date, the week_id and the steps of the first grid row edited
DailyEdits ==
  [id : {1}, date : DailyDates, week_id : {None, 1, 2},
   weight_kg : {None}, steps : {None, 50}]

NextDaily ==
  \/ HomeRender
  \/ \E d \in DailyDates, st \in {0, 5} : SaveDaily(d, 0, st, d)
  \/ \E c \in DailyCsvs : ImportCSV(c)
  \/ \E e \in DailyEdits : ManageSaveDaily(e)

SpecDaily == Init /\ [][NextDaily]_vars

\* the read-only pages over stores built by the data-entry page and by
\* one-row imports (the second file creates the week with the smaller number)
DashCsvs ==
  {[cols |-> required, rows |-> <<Row(20, 7, MaxDate, 885, None)>>],
   [cols |-> required, rows |-> <<Row(10, 0, 1, 900, 123190)>>]}
\* the steps cell of the first row retyped in the manage-data grid
DashEdits ==
  {[id |-> dm.id, date |-> dm.date, week_id |-> dm.week_id,
    weight_kg |-> dm.weight_kg, steps |-> 123190] : dm \in {x \in dailies : x.id = 1}}
NextDash ==
  \/ HomeRender
  \/ \E d \in {1, MaxDate}, st \in {0, 12319} : SaveDaily(d, 870, st, d)
  \/ \E wd \in Mondays : SaveWeekly(wd, SomeMeas, NoIssues, FullScores)
  \/ \E c \in DashCsvs : ImportCSV(c)
  \/ \E e \in DashEdits : ManageSaveDaily(e)
  \/ \E smooth \in {2, 7} : DashboardRender(smooth)
  \/ ExportRender
SpecDash == Init /\ [][NextDash]_vars

\* rolling_avg as a function: the series and windows it is applied to
Series ==
  UNION {[1..n -> {Ratio(10, 1), Ratio(20, 1), Ratio(30, 1), NoRatio}] : n \in 1..MaxLen}
Windows == {1, 2, 3, 7}
InitRolling ==
  /\ users = {} /\ weeks = {} /\ dailies = {} /\ meas = {} /\ wb = {} /\ adh = {}
  /\ msg = "none" /\ calls = <<>> /\ csv = NoCsv /\ cleanup = NoCleanup
  /\ view \in {[page |-> "series", series |-> s, window |-> w] : s \in Series, w \in Windows}
SpecRolling == InitRolling /\ [][RollingAvg]_vars

\* ------------------------------------------------------------- properties
WeeksOf(ws, u) == {w \in ws : w.user_id = u}
MaxOrZero(S) == IF S = {} THEN 0 ELSE Max(S)

\* C1: for every date d, resolving d twice in a row on the current store
\* returns the same Week id both times, and afterwards exactly one Week row of
\* the user has start_date = the Monday of d.
C1_ResolveTwice ==
  HasUser =>
    \A d \in Dates :
      LET r1 == get_or_create_week(DB, user_id, d)
          r2 == get_or_create_week(r1.db, user_id, d)
      IN /\ r1.wk.id = r2.wk.id
         /\ Cardinality({w \in WeeksOf(r2.db.weeks, user_id) :
                           w.start_date = monday_start(d)}) = 1

\* C2: a Week created by a run of the data-entry page gets week_number 1 when
\* the user had no Week, and otherwise one more than the largest week_number
\* the user had when it was created, wherever its start_date falls.
EntryRun == msg' \in {"entry", "Saved daily entry", "Saved weekly check-in"}

C2_WeekNumbering ==
  [][EntryRun =>
       \A w \in weeks' \ weeks :
         w.week_number =
           1 + MaxOrZero({x.week_number :
                            x \in {y \in WeeksOf(weeks', w.user_id) : y.id < w.id}})]_vars

\* a Week just created by week resolution, numbered past a gap (the user has
\* fewer weeks than its number) and starting before an existing week
C2_Witness ==
  /\ calls # <<>>
  /\ calls[1].created
  /\ \E w \in weeks, v \in weeks :
       /\ w.id = calls[1].id
       /\ w.start_date < v.start_date
       /\ w.week_number = v.week_number + 1
       /\ Cardinality(weeks) < w.week_number

\* C7: the first run of the home page on a store without User rows creates
\* exactly the default User row; no later run creates a User row, so there is
\* exactly one from then on.
C7_ProfileBootstrap ==
  [][/\ msg' = "home" => users' # {}
     /\ users = {} /\ users' # {} => users' = {DefaultUser}
     /\ users # {} => Cardinality(users') = 1 /\ Ids(users') = Ids(users)]_vars

\* the home page run again after the bootstrap and a visit of data entry
C7_Witness ==
  /\ msg = "home"
  /\ weeks # {}
  /\ users = {DefaultUser}

\* C9: no two Week rows of a user have the same start_date.
C9_StartDateUnique ==
  \A w \in weeks, v \in weeks :
    w.user_id = v.user_id /\ w.start_date = v.start_date => w = v

\* C10: no two Week rows of a user have the same week_number.
C10_WeekNumberUnique ==
  \A w \in weeks, v \in weeks :
    w.user_id = v.user_id /\ w.week_number = v.week_number => w = v

Tables == <<weeks, dailies, meas, wb, adh>>
WeeklyOf(T, wid) == {r \in T : r.week_id = wid}
ConfirmedRun(op) == cleanup'.op = op /\ cleanup'.confirm = "DELETE"
Outside(dm, c) == ~InRange(dm.date, c.d_from, c.d_to)

\* C3: in both cleanup modes, "Delete now" with a confirmation text other
\* than "DELETE" reports the error and leaves the five tables as they were.
C3_GuardedDeletion ==
  [][(cleanup'.op \in {"delete_by_date", "delete_by_week"} /\ cleanup'.confirm # "DELETE")
       => (msg' = "Please type DELETE to confirm." /\ UNCHANGED Tables)]_vars

\* an unconfirmed date-range deletion refused while the store held a daily
\* row of a week with a check-in
C3_Witness ==
  /\ cleanup.op = "delete_by_date"
  /\ cleanup.confirm # "DELETE"
  /\ msg = "Please type DELETE to confirm."
  /\ \E dm \in dailies : WeeklyOf(meas, dm.week_id) # {}

\* C4: a confirmed date-range deletion keeps every Week that has a
\* DailyMetric row dated outside [from, to], with its Measurement, Wellbeing
\* and Adherence rows, whatever the two options; and the preview never lists
\* such a week as one that would be fully removed.
C4_PopulatedWeekKept ==
  [][/\ ConfirmedRun("delete_by_date") =>
          \A w \in weeks :
            (\E dm \in dailies : dm.week_id = w.id /\ Outside(dm, cleanup'))
              => /\ w \in weeks'
                 /\ WeeklyOf(meas', w.id) = WeeklyOf(meas, w.id)
                 /\ WeeklyOf(wb', w.id) = WeeklyOf(wb, w.id)
                 /\ WeeklyOf(adh', w.id) = WeeklyOf(adh, w.id)
     /\ cleanup'.op = "preview_by_date" =>
          \A wid \in cleanup'.empty :
            ~\E dm \in dailies' : dm.week_id = wid /\ Outside(dm, cleanup')]_vars

\* a confirmed deletion with both options on that removed rows of a week
\* (it is touched) which kept another row, its Week and its check-in
C4_Witness ==
  /\ msg = "Deletion completed"
  /\ cleanup.weekly /\ cleanup.weeks
  /\ \E w \in weeks :
       /\ w.id \in cleanup.touched
       /\ \E dm \in dailies : dm.week_id = w.id
       /\ WeeklyOf(meas, w.id) # {}

\* C5 as stated: for a Week all of whose DailyMetric rows are dated inside
\* [from, to], a confirmed date-range deletion with "also remove weekly
\* check-ins" leaves no Measurement, Wellbeing or Adherence row of that week,
\* and with "delete empty weeks" too leaves no Week row for it.
C5_EmptyWeekCascade ==
  [][(ConfirmedRun("delete_by_date") /\ cleanup'.weekly) =>
       \A w \in weeks :
         (\A dm \in dailies : dm.week_id = w.id => ~Outside(dm, cleanup'))
           => /\ WeeklyOf(meas', w.id) = {}
              /\ WeeklyOf(wb', w.id) = {}
              /\ WeeklyOf(adh', w.id) = {}
              /\ cleanup'.weeks => w.id \notin Ids(weeks')]_vars

\* C5 amended: the same for a Week that has at least one DailyMetric row and
\* all of whose DailyMetric rows are dated inside [from, to].
C5_EmptyWeekCascadeAmended ==
  [][(ConfirmedRun("delete_by_date") /\ cleanup'.weekly) =>
       \A w \in weeks :
         (/\ \E dm \in dailies : dm.week_id = w.id
          /\ \A dm \in dailies : dm.week_id = w.id => ~Outside(dm, cleanup'))
           => /\ WeeklyOf(meas', w.id) = {}
              /\ WeeklyOf(wb', w.id) = {}
              /\ WeeklyOf(adh', w.id) = {}
              /\ cleanup'.weeks => w.id \notin Ids(weeks')]_vars

\* a confirmed deletion with both options on that found a week empty and
\* removed it while another week keeps its check-in
C5_Witness ==
  /\ msg = "Deletion completed"
  /\ cleanup.weekly /\ cleanup.weeks
  /\ cleanup.empty # {}
  /\ cleanup.empty \cap Ids(weeks) = {}
  /\ \A wid \in cleanup.empty : WeeklyOf(meas, wid) = {}
  /\ meas # {}

\* the store before row k of the uploaded file is imported
BeforeRow(c, k) == import_rows(DB, user_id, c.cols, SubSeq(c.rows, 1, k - 1))
\* table T of a store
TableIn(db, T) == IF T = "meas" THEN db.meas ELSE IF T = "wb" THEN db.wb ELSE db.adh
FieldsOf(T) == IF T = "meas" THEN MeasFields ELSE IF T = "wb" THEN WbFields ELSE AdhFields
\* the cell of field f as a stored value: ratings and scores are whole numbers
CellValue(f, cell) == IF IsIntField(f) THEN cell \div 10 ELSE cell

\* C6: when an imported row's week (the user's Week of the row's start_date)
\* already has a Measurement row, the import sets the row's non-blank
\* measurement cells on that row, which keeps its id, and the week has as many
\* Measurement rows as before; the same for Wellbeing and Adherence.  The
\* store after the last row is the store the run leaves.
C6_ImportUpsert ==
  [][(msg' \in {"Imported", "exception"} /\ csv'.rows # <<>>) =>
       /\ <<weeks', dailies', meas', wb', adh'>> =
            LET r == import_rows(DB, user_id, csv'.cols, csv'.rows).db
            IN <<r.weeks, r.dailies, r.meas, r.wb, r.adh>>
       /\ \A k \in 1..Len(csv'.rows) :
            LET row == csv'.rows[k]
                before == BeforeRow(csv', k)
                after == import_row(before.db, user_id, csv'.cols, row)
                pre == before.db
                post == after.db
            IN (before.ok /\ after.ok) =>
                 \A w \in find_week(pre.weeks, user_id, row.start_date) :
                   \A T \in {"meas", "wb", "adh"} :
                     \A old \in select_weekly(TableIn(pre, T), user_id, w.id) :
                       /\ \E new \in TableIn(post, T) :
                            /\ new.id = old.id
                            /\ new.week_id = w.id
                            /\ \A f \in FieldsOf(T) \cap csv'.cols :
                                 row[f] # None => new[f] = CellValue(f, row[f])
                       /\ Cardinality(WeeklyOf(TableIn(post, T), w.id))
                            = Cardinality(WeeklyOf(TableIn(pre, T), w.id))]_vars

\* an import that changed the chest of a Measurement row saved by data entry
\* and left the week with that one Measurement row
C6_Witness ==
  /\ msg = "Imported"
  /\ \E m \in meas :
       /\ m.chest_in = 415
       /\ m.waist_navel_in = 300
       /\ WeeklyOf(meas, m.week_id) = {m}
  /\ \E w \in wb : w.sleep_issues = 2 /\ w.hunger_issues = 0

\* C8: each Week has at most one Measurement row, at most one Wellbeing row
\* and at most one Adherence row, after any sequence of data-entry weekly
\* saves, CSV imports, manage-data weekly saves and deletions.
C8_OneWeeklyRecord ==
  \A w \in weeks :
    /\ Cardinality(WeeklyOf(meas, w.id)) <= 1
    /\ Cardinality(WeeklyOf(wb, w.id)) <= 1
    /\ Cardinality(WeeklyOf(adh, w.id)) <= 1

\* two weeks with one row each in the three tables after a manage-data save,
\* one Measurement row written by the import, the other by data entry
C8_Witness ==
  /\ Cardinality(weeks) = 2
  /\ \A w \in weeks :
       /\ Cardinality(WeeklyOf(meas, w.id)) = 1
       /\ Cardinality(WeeklyOf(wb, w.id)) = 1
       /\ Cardinality(WeeklyOf(adh, w.id)) = 1
  /\ msg = "Weekly changes saved."
  /\ \E m \in meas : m.chest_in = 300 /\ m.waist_navel_in = None
  /\ \E m \in meas : m.waist_navel_in = 300

\* C11: the start_date of every Week row is a Monday.
C11_StartDateMonday == \A w \in weeks : w.start_date % 7 = 0

\* C12: every DailyMetric row with a week_id points to a Week whose
\* start_date <= the row's date <= start_date + 6.
C12_DailyInWeek ==
  \A dm \in dailies :
    dm.week_id # None =>
      \E w \in weeks :
        w.id = dm.week_id /\ w.start_date <= dm.date /\ dm.date <= w.start_date + 6

\* C13: each DailyMetric row has run_km absent exactly when steps is absent,
\* and otherwise run_km = steps * 8 / 8900.
C13_KmDerived ==
  \A dm \in dailies :
    /\ dm.run_km = NoRatio <=> dm.steps = None
    /\ dm.steps # None => RatEq(dm.run_km, Ratio(dm.steps * 8, 8900))

\* C14: an import whose header lacks one of date, weight_kg, steps,
\* week_number, start_date reports the error and leaves the Week, DailyMetric,
\* Measurement, Wellbeing and Adherence tables as they were.
C14_MissingColumn ==
  [][(csv'.rows # <<>> /\
      ~({"date", "weight_kg", "steps", "week_number", "start_date"} \subseteq csv'.cols))
       => (msg' = "Missing columns" /\ UNCHANGED Tables)]_vars

\* a file without the steps column refused on a store that has the week and
\* the Measurement row its row names
C14_Witness ==
  /\ msg = "Missing columns"
  /\ "steps" \notin csv.cols
  /\ \E r \in {csv.rows[i] : i \in 1..Len(csv.rows)} :
       \E w \in weeks : w.start_date = r.start_date /\ WeeklyOf(meas, w.id) # {}

\* C20: in every reachable state each stored Wellbeing rating is absent or an
\* integer in 0..5 and each stored Adherence score is absent or an integer in
\* 0..10.
C20_RatingRanges ==
  /\ \A r \in wb : \A f \in WbFields : r[f] = None \/ r[f] \in 0..5
  /\ \A r \in adh : \A f \in AdhFields : r[f] = None \/ r[f] \in 0..10

\* the weekly frame of the last Dashboard or Export Report run that got past
\* the empty-state test
Rendered == view.page \in {"dashboard", "export"} /\ view.info = "none"
UserDailies == IF HasUser THEN {dm \in dailies : dm.user_id = user_id} ELSE {}

RECURSIVE RatSum(_, _)
RatSum(series, P) ==
  IF P = {} THEN Ratio(0, 1)
  ELSE LET j == CHOOSE x \in P : TRUE
       IN RatAdd(series[j], RatSum(series, P \ {j}))

\* C16: rolling_avg(series, window) returns, for each position i, the mean of
\* the values at the positions from max(first, i - window + 1) to i (absent
\* when none of them holds a value), so the first window - 1 points average
\* only the values available so far.
C16_RollingBoundary ==
  view.page = "rolling" =>
    /\ Len(view.out) = Len(view.series)
    /\ \A i \in 1..Len(view.series) :
         LET P == {j \in Max({1, i - view.window + 1})..i : view.series[j].den # 0}
             s == RatSum(view.series, P)
         IN IF P = {} THEN view.out[i] = NoRatio
            ELSE RatEq(view.out[i], Ratio(s.num, s.den * Cardinality(P)))

\* rolling_avg([10, 20, 30], 7) = [10, 15, 20]
C16_Witness ==
  /\ view.page = "rolling"
  /\ view.series = <<Ratio(10, 1), Ratio(20, 1), Ratio(30, 1)>>
  /\ view.window = 7
  /\ RatEq(view.out[1], Ratio(10, 1))
  /\ RatEq(view.out[2], Ratio(15, 1))
  /\ RatEq(view.out[3], Ratio(20, 1))

\* C17: every stored run_km is steps * 8 / 8900 for the step count it was
\* derived from (0 for a data-entry save with 0 steps), and every km value
\* the Dashboard and the Export Report display is the hundredth nearest to
\* s * 8 / 8900 for the day's step count s.
C17_StepsToKm ==
  /\ \A dm \in dailies :
       IF dm.steps # None THEN RatEq(dm.run_km, Ratio(dm.steps * 8, 8900))
       ELSE dm.run_km = NoRatio \/ RatEq(dm.run_km, Ratio(0 * 8, 8900))
  /\ Rendered =>
       \A i \in 1..Len(view.day) :
         LET s == view.day[i].steps
             k == view.km_calc[i]
             e == k * 8900 * s.den - 100 * 8 * s.num
         IN IF s.den = 0 THEN k = None
            ELSE k # None /\ 2 * e <= 8900 * s.den /\ -2 * e <= 8900 * s.den

\* 12,319 steps of a day are displayed as 11.07 km
C17_Witness ==
  /\ Rendered
  /\ \E i \in 1..Len(view.day) :
       view.day[i].steps = Ratio(12319, 1) /\ view.km_calc[i] = 1107

\* C18: when the user has no DailyMetric row, a run of the Dashboard or of
\* the Export Report shows the empty-state message and reaches no step after
\* the load.
C18_EmptyState ==
  (view.page \in {"dashboard", "export"} /\ UserDailies = {})
    => (view.info # "none" /\ view.reached = {"load"})

\* the run stopped although weeks and weekly check-ins exist
C18_Witness ==
  /\ view.page = "dashboard"
  /\ view.reached = {"load"}
  /\ UserDailies = {}
  /\ weeks # {}
  /\ meas # {}

\* C19: for a user with at least one DailyMetric row, every Week row of the
\* user appears exactly once in the frame load_weekly_df returns, and every
\* row of the frame is the row of a Week.
C19_OneRowPerWeek ==
  Rendered =>
    LET F == view.weekly
    IN /\ \A w \in {x \in weeks : x.user_id = user_id} :
            Cardinality({i \in 1..Len(F) : F[i].week_id = w.id}) = 1
       /\ \A i \in 1..Len(F) :
            \E w \in weeks : w.user_id = user_id /\ w.id = F[i].week_id

\* C21: an import of a row whose date already has a DailyMetric row of the
\* user writes the row's weight_kg, steps, the run_km derived from them and
\* the id of the row's week onto one existing row of that date, changes no
\* other row and adds none; a row whose date has no DailyMetric row adds
\* exactly one row and changes none.  (Stated for one-row files.)
C21_ImportDailyUpsert ==
  [][(msg' = "Imported" /\ Len(csv'.rows) = 1) =>
       LET row == csv'.rows[1]
           st == IF row.steps = None THEN None ELSE row.steps \div 10
           ex == {dm \in dailies : dm.user_id = user_id /\ dm.date = row.date}
           Written(new) ==
             /\ new.date = row.date
             /\ new.weight_kg = row.weight_kg
             /\ new.steps = st
             /\ IF st = None THEN new.run_km = NoRatio
                ELSE RatEq(new.run_km, Ratio(st * 8, 8900))
             /\ \E w \in weeks' : w.id = new.week_id /\ w.start_date = row.start_date
       IN IF ex # {}
          THEN /\ Cardinality(dailies') = Cardinality(dailies)
               /\ \E dm \in ex :
                    /\ dailies \ {dm} \subseteq dailies'
                    /\ \E new \in dailies' : new.id = dm.id /\ Written(new)
          ELSE /\ Cardinality(dailies') = Cardinality(dailies) + 1
               /\ dailies \subseteq dailies'
               /\ \E new \in dailies' \ dailies : Written(new)]_vars

\* an import overwrote the only DailyMetric row: it was saved by data entry
\* into the week of its date and is now linked to the week the file names
C21_Witness ==
  /\ msg = "Imported"
  /\ Cardinality(weeks) = 2
  /\ \E dm \in dailies :
       /\ dailies = {dm}
       /\ dm.id = 1
       /\ dm.date = 1
       /\ dm.steps = 5
       /\ \E w \in weeks : w.id = dm.week_id /\ w.start_date = 7

\* C22: a confirmed deletion by week-number range leaves no DailyMetric row
\* linked to a Week whose week_number is in the range and keeps every other
\* DailyMetric row; it removes the Measurement, Wellbeing and Adherence rows
\* of those weeks exactly when "also remove weekly check-ins" is on and the
\* Week rows exactly when "delete the Week rows" is on; rows of other weeks
\* are unchanged, and nothing is deleted when no week matches.
C22_DeleteByWeek ==
  [][ConfirmedRun("delete_by_week") =>
       LET c == cleanup'
           hit == {w \in weeks : c.wk_from <= w.week_number /\ w.week_number <= c.wk_to}
           ids == {w.id : w \in hit}
       IN /\ \A dm \in dailies' : dm.week_id \notin ids
          /\ \A dm \in dailies : dm.week_id \notin ids => dm \in dailies'
          /\ dailies' \subseteq dailies
          /\ \A T \in {<<meas, meas'>>, <<wb, wb'>>, <<adh, adh'>>} :
               /\ T[2] \subseteq T[1]
               /\ \A r \in T[1] :
                    r \in T[2] <=> (r.week_id \notin ids \/ ~c.weekly)
          /\ weeks' \subseteq weeks
          /\ \A w \in weeks : w \in weeks' <=> (w \notin hit \/ ~c.weeks)
          /\ hit = {} => UNCHANGED Tables]_vars

\* the Week rows of the range were deleted and their check-ins kept
C22_Witness ==
  /\ cleanup.op = "delete_by_week"
  /\ cleanup.confirm = "DELETE"
  /\ cleanup.wids # {}
  /\ cleanup.weeks
  /\ ~cleanup.weekly
  /\ \E r \in adh : r.week_id \in cleanup.wids
  /\ \E w \in weeks : w.id \notin cleanup.wids
  /\ dailies # {}

\* C27: every Measurement, Wellbeing and Adherence row's week_id and every
\* non-absent DailyMetric week_id is the id of a Week row of the store.
C27_WeekLinks ==
  /\ \A r \in meas \cup wb \cup adh : r.week_id \in Ids(weeks)
  /\ \A dm \in dailies : dm.week_id # None => dm.week_id \in Ids(weeks)

\* C23: a confirmed deletion by date range with "also remove weekly
\* check-ins" off removes exactly the DailyMetric rows dated in [from, to]
\* and no Measurement, Wellbeing, Adherence or Week row, whatever "delete
\* empty weeks" is set to.
C23_DailyOnly ==
  [][(ConfirmedRun("delete_by_date") /\ ~cleanup'.weekly) =>
       /\ dailies' = {dm \in dailies : Outside(dm, cleanup')}
       /\ UNCHANGED <<weeks, meas, wb, adh>>]_vars

\* "delete empty weeks" was on, the range held the last daily row of a week
\* that has check-ins, and the week and its check-ins are still there
C23_Witness ==
  /\ cleanup.op = "delete_by_date"
  /\ cleanup.confirm = "DELETE"
  /\ ~cleanup.weekly
  /\ cleanup.weeks
  /\ \E wid \in cleanup.touched :
       /\ \A dm \in dailies : dm.week_id # wid
       /\ \E w \in weeks : w.id = wid
       /\ WeeklyOf(meas, wid) # {}

\* C28: in date-range mode with "also remove weekly check-ins" on, the weeks
\* the preview reports as fully removed are the weeks the confirmed deletion
\* finds empty when run on the same store, namely the touched weeks without a
\* DailyMetric row dated outside the range, and the previewed number of daily
\* rows is the number of DailyMetric rows the deletion removes.
C28_PreviewAgrees ==
  [][/\ (cleanup'.op = "preview_by_date" /\ cleanup'.weekly) =>
          LET c == cleanup'
              r == delete_by_date(DB, c.d_from, c.d_to, TRUE, TRUE)
          IN /\ c.empty = r.empty
             /\ c.daily = Cardinality(dailies) - Cardinality(r.db.dailies)
     /\ (ConfirmedRun("delete_by_date") /\ cleanup'.weekly) =>
          LET c == cleanup'
          IN /\ c.empty = {wid \in c.touched :
                             \A dm \in dailies : dm.week_id = wid => ~Outside(dm, c)}
             /\ c.empty = preview_empty_weeks(dailies, c.d_from, c.d_to)
             /\ Cardinality(dailies) - Cardinality(dailies')
                  = Cardinality(q_daily(dailies, c.d_from, c.d_to))]_vars

\* a preview that lists a touched week as not fully removed, because the
\* week keeps a daily row dated outside the range
C28_Witness ==
  /\ cleanup.op = "preview_by_date"
  /\ cleanup.weekly
  /\ cleanup.daily = 1
  /\ cleanup.touched # {}
  /\ cleanup.empty = {}
  /\ Cardinality(dailies) = 2

\* C24: "Delete selected week rows" on the weekly tab removes, for every
\* checked week id, that week's Measurement, Wellbeing and Adherence rows; the
\* Week rows and the DailyMetric rows are unchanged, and the weekly records of
\* the weeks that were not checked are unchanged
C24_DeleteSelectedWeekly ==
  [][cleanup'.op = "manage_delete_weekly" =>
       /\ meas' = {r \in meas : r.week_id \notin cleanup'.ids}
       /\ wb' = {r \in wb : r.week_id \notin cleanup'.ids}
       /\ adh' = {r \in adh : r.week_id \notin cleanup'.ids}
       /\ weeks' = weeks
       /\ dailies' = dailies]_vars

\* week 1 was checked and week 2 was not: week 1 has no weekly record left,
\* week 2 kept its measurement, both Week rows and a daily row of week 1 remain
C24_Witness ==
  /\ cleanup.op = "manage_delete_weekly"
  /\ cleanup.ids = {1}
  /\ \A T \in {meas, wb, adh} : \A r \in T : r.week_id # 1
  /\ \E r \in meas : r.week_id = 2
  /\ {1, 2} \subseteq Ids(weeks)
  /\ \E dm \in dailies : dm.week_id = 1

\* C25: a run of the data-entry page with no button pressed resolves the week
\* of the weekly tab's date: when no Week of the user starts on that date's
\* Monday the run commits exactly one new Week row for that Monday, when one
\* exists the Week table is unchanged; no daily or weekly record is written
C25_RenderResolvesWeek ==
  [][msg' = "entry" =>
       LET start == monday_start(calls'[1].d)
           had == {w \in weeks : w.user_id = user_id /\ w.start_date = start}
       IN /\ IF had = {}
             THEN \E w \in weeks' \ weeks :
                    /\ weeks' = weeks \cup {w}
                    /\ w.user_id = user_id
                    /\ w.start_date = start
             ELSE weeks' = weeks
          /\ UNCHANGED <<dailies, meas, wb, adh>>]_vars

\* the tab was shown for a Wednesday of a week that did not exist: its Week
\* row is stored next to the earlier one and no check-in row exists
C25_Witness ==
  /\ msg = "entry"
  /\ calls[1].d = 2
  /\ calls[1].created
  /\ \E w \in weeks : w.id = calls[1].id /\ w.start_date = 0
  /\ Cardinality(weeks) = 2
  /\ meas = {} /\ wb = {} /\ adh = {}

\* C30: after "Save weekly changes" every Week of the user has exactly one
\* Measurement, one Wellbeing and one Adherence row, also a week whose cells
\* were all blank or whose columns the grid did not show
C30_SaveMaterialises ==
  msg = "Weekly changes saved." =>
    \A w \in {x \in weeks : x.user_id = user_id} :
      \A T \in {meas, wb, adh} :
        Cardinality({r \in T : r.user_id = user_id /\ r.week_id = w.id}) = 1

\* two weeks were saved: week 1, whose check-in had been deleted, got rows
\* with every field absent and week 2 kept its measurement
C30_Witness ==
  /\ msg = "Weekly changes saved."
  /\ {1, 2} \subseteq Ids(weeks)
  /\ \E r \in meas : r.week_id = 1 /\ \A f \in MeasFields : r[f] = None
  /\ \E r \in wb : r.week_id = 1 /\ \A f \in WbFields : r[f] = None
  /\ \E r \in adh : r.week_id = 1 /\ \A f \in AdhFields : r[f] = None
  /\ \E r \in meas : r.week_id = 2 /\ r.chest_in # None

\* the DailyMetric rows a bulk deletion removes and the week ids whose weekly
\* records and Week rows it removes, for the run recorded in c on the store
\* c.before
BulkDailies(c) ==
  IF c.op = "delete_by_date_failed"
  THEN {dm \in c.before.dailies : dm.date >= c.d_from /\ dm.date <= c.d_to}
  ELSE {dm \in c.before.dailies :
          \E w \in c.before.weeks :
            w.id = dm.week_id /\ w.week_number >= c.wk_from /\ w.week_number <= c.wk_to}
BulkWeekIds(c) ==
  IF c.op = "delete_by_date_failed"
  THEN {dm.week_id : dm \in {x \in BulkDailies(c) : x.week_id # None}} \
       {dm.week_id : dm \in c.before.dailies \ BulkDailies(c)}
  ELSE {w.id : w \in {x \in c.before.weeks :
                        x.week_number >= c.wk_from /\ x.week_number <= c.wk_to}}

\* C26: a bulk deletion that fails part-way is not undone: when it fails at
\* the deletion of the weekly records, the DailyMetric deletion is persisted
\* and every weekly record and Week row still exists; when it fails at the
\* deletion of the Week rows, the DailyMetric deletion and (if selected) the
\* weekly-record deletion are persisted and every Week row still exists
C26_PartialDeletion ==
  cleanup.op \in {"delete_by_date_failed", "delete_by_week_failed"} =>
    LET b == cleanup.before
        ids == BulkWeekIds(cleanup)
        kept(T) == IF cleanup.at = "weeks" /\ cleanup.weekly
                   THEN {r \in T : r.week_id \notin ids} ELSE T
    IN /\ dailies = b.dailies \ BulkDailies(cleanup)
       /\ meas = kept(b.meas)
       /\ wb = kept(b.wb)
       /\ adh = kept(b.adh)
       /\ weeks = b.weeks

\* a date-range deletion with both options on failed at the weekly records:
\* the week's only daily row is gone, its check-in and its Week row remain
C26_Witness ==
  /\ cleanup.op = "delete_by_date_failed"
  /\ cleanup.at = "weekly"
  /\ cleanup.weekly /\ cleanup.weeks
  /\ cleanup.before.dailies # {}
  /\ dailies = {}
  /\ \E w \in weeks : \E r \in meas : r.week_id = w.id /\ w.id \in BulkWeekIds(cleanup)

\* C29: when two sessions called get_or_create_week for dates of the same
\* week, which did not exist, with their statements interleaved, and both
\* calls have returned, exactly one Week of the user starts on that Monday and
\* the week_number values of the user's weeks are pairwise distinct
C29_WeekInterleaving ==
  (/\ Len(calls) = 2
   /\ AllDone
   /\ monday_start(calls[1].d) = monday_start(calls[2].d)
   /\ (calls[1].created \/ calls[2].created)) =>
    /\ Cardinality({w \in weeks : w.user_id = user_id
                                  /\ w.start_date = monday_start(calls[1].d)}) = 1
    /\ \A w1, w2 \in {w \in weeks : w.user_id = user_id} :
         w1 # w2 => w1.week_number # w2.week_number

====
